---- MODULE Spec2Model ----
(***************************************************************************)
(* MARS voice assistant: the audio-session core.                           *)
(*                                                                         *)
(*   LiveKitService  (src/src/services/livekit.ts): microphone capture     *)
(*                   with voice-activity detection, and gapless playback   *)
(*                   scheduling with interruption.                         *)
(*   GeminiService   (src/src/components/HudGreeting.tsx): the model       *)
(*                   session: inbound message handling and the             *)
(*                   function-call request/response protocol.              *)
(*   Index           (src/unnamed/part_002): the page that wires the two.  *)
(*                                                                         *)
(* JavaScript runs one task at a time: an action below is one task, from   *)
(* the event that starts it (or the promise that resumes it) to the next   *)
(* await on something still pending.                                       *)
(*                                                                         *)
(* Time is counted in whole units of the output clock; a frame's duration  *)
(* is a whole number of units.  Sample values are counted in hundredths    *)
(* of full scale.                                                          *)
(***************************************************************************)
EXTENDS Integers, Sequences, FiniteSets

VARIABLES
    \* ---- LiveKitService: playback (livekit.ts:211-216)
    playbackAudioContext,   \* TRUE when this.playbackAudioContext is not null
    currentTime,            \* playbackAudioContext.currentTime (0 for a fresh context)
    nextStartTime,          \* this.nextStartTime
    scheduledSources,       \* this.scheduledSources: sequence of source ids
    sources,                \* every AudioBufferSourceNode made in this context
    interrupts,             \* number of interruptAudio() calls in this context
    \* ---- LiveKitService: capture (livekit.ts:14-21, 122-123)
    room,                   \* TRUE when this.room is not null
    roomConnected,          \* TRUE when this.room.state is 'connected'
    localAudioTrack,        \* "null" | "track" | "noStream"
    audioContext,           \* TRUE when the capture AudioContext exists
    processor,              \* this.processor: 0 (null) or an index of processors
    processors,             \* every ScriptProcessorNode made, with its closure
    onAudioDataCallback,    \* TRUE when registered
    onVoiceActivityCallback,\* TRUE when registered
    \* ---- GeminiService (HudGreeting.tsx:157-162)
    ws,                     \* "null" | "CONNECTING" | "OPEN" | "CLOSED"
    wsSent,                 \* messages written to the transport, in order
    handlers,               \* TRUE once Index has registered its four handlers
    tasks,                  \* the handleMessage invocations, in arrival order
    wire,                   \* messages the remote party has still to deliver
    dispatched,             \* ids of the calls handed to the function handler, in order
    errorEvents,            \* number of onErrorHandler invocations
    connections,            \* number of WebSockets opened so far
    delivered,              \* audio and text parts handed to their handlers, in order
    setupAcked,             \* TRUE once setupComplete was handled on this socket
    \* ---- Index (part_002:22-30, 133-240)
    isConnected,            \* the isConnected state of the page
    isMicEnabled,           \* the isMicEnabled state of the page
    connectPc,              \* where handleConnect is, or how its last run ended
    teardown,               \* the steps of the last handleDisconnect, in order
    mounted,                \* FALSE once the page was unmounted
    togglePc,               \* where toggleMicrophone is: "idle" | "muting" | "unmuting"
    \* ---- functionRouter (functionRouter.ts:29-59, part_002:86-130)
    routing,                \* the function call being routed, and how far it got
    \* ---- PCM conversion (livekit.ts:173-178, 235-240)
    conversion              \* the sample being converted, and how far it got

playVars == <<playbackAudioContext, currentTime, nextStartTime,
              scheduledSources, sources, interrupts>>
capVars  == <<room, roomConnected, localAudioTrack, audioContext, processor, processors,
              onAudioDataCallback, onVoiceActivityCallback>>
gemVars  == <<ws, wsSent, handlers, tasks, wire, dispatched, errorEvents,
              connections, delivered, setupAcked>>
appVars  == <<isConnected, isMicEnabled, connectPc, teardown, mounted, togglePc>>
toolVars == <<routing, conversion>>
vars     == <<playVars, capVars, gemVars, appVars, toolVars>>

(***************************************************************************)
(* Bounds of the model.                                                    *)
(***************************************************************************)
MaxFrames     == 3   \* frames enqueued per playback context
MaxDur        == 2   \* longest frame, in clock units
MaxClock      == 4   \* the output clock is followed up to here
MaxInterrupts == 2   \* interruptAudio() calls followed per playback context
MaxProcessors == 1   \* capture processors created
MaxChanges    == 3   \* changes of a processor's input between loud and quiet
CaptureFrames == 1   \* frames enqueued while the capture pipeline is followed
MaxMessages   == 2   \* inbound messages the remote party delivers
MaxConnections == 1  \* WebSockets opened
CaptureClock  == 1   \* the output clock while the capture pipeline is followed
CaptureDur    == 1   \* longest frame enqueued while the capture pipeline is followed
MaxSent       == 4   \* messages written to the transport while the page is followed
MaxCaptures   == 2   \* capture sessions started while the page is followed

Max(a, b) == IF a >= b THEN a ELSE b

Range(s) == {s[i] : i \in DOMAIN s}

Last(s) == s[Len(s)]

RECURSIVE Without(_, _)
Without(s, x) ==
    IF s = <<>> THEN <<>>
    ELSE IF Head(s) = x THEN Tail(s)
    ELSE <<Head(s)>> \o Without(Tail(s), x)

(***************************************************************************)
(* Playback scheduler: LiveKitService.playAudio / interruptAudio.          *)
(*                                                                         *)
(* A playback state is the record of the playback fields, so that one      *)
(* task can call playAudio several times in a row.                         *)
(***************************************************************************)
Playback ==
    [ctx   |-> playbackAudioContext,
     now   |-> currentTime,
     next  |-> nextStartTime,
     sched |-> scheduledSources,
     srcs  |-> sources,
     ints  |-> interrupts]

\* A scheduler that starts every frame at once, whatever is queued
StartTimeNow(next, now) == now

\* livekit.ts:260  Math.max(this.nextStartTime, ctx.currentTime)
StartTime(next, now) == Max(next, now)

\* A scheduler that forgets the frame's duration
NextStartTimeNoDuration(startTime, duration) == startTime

\* livekit.ts:273  this.nextStartTime = startTime + audioBuffer.duration
NextStartTime(startTime, duration) == startTime + duration

\* livekit.ts:224-233  create the context on first use
EnsureContext(pb) ==
    IF pb.ctx THEN pb
    ELSE [pb EXCEPT !.ctx = TRUE, !.next = pb.now]

\* livekit.ts:222-274.  A frame of no samples makes createBuffer throw
\* after the context was made; the caller (part_002:59-65) swallows it.
playAudio(pb, d) ==
    LET p1 == EnsureContext(pb) IN
    IF d = 0 THEN p1
    ELSE
      LET startTime == StartTime(p1.next, p1.now)
          source == [start   |-> startTime,
                     dur     |-> d,
                     epoch   |-> p1.ints,
                     stopped |-> FALSE]
          id == Len(p1.srcs) + 1
      IN [p1 EXCEPT !.srcs  = Append(@, source),
                    !.sched = Append(@, id),
                    !.next  = NextStartTime(startTime, d)]

\* An interruption that stops only the oldest tracked source
StopOldestSource(srcs, sched) ==
    [i \in DOMAIN srcs |->
        IF sched # <<>> /\ i = Head(sched)
        THEN [srcs[i] EXCEPT !.stopped = TRUE]
        ELSE srcs[i]]

\* livekit.ts:282-288  source.stop() on every tracked source
StopSources(srcs, sched) ==
    [i \in DOMAIN srcs |->
        IF i \in Range(sched) THEN [srcs[i] EXCEPT !.stopped = TRUE]
        ELSE srcs[i]]

\* An interruption that leaves the timing as it was
KeepTiming(pb) == pb.next

\* livekit.ts:292-294  reset timing
ResetTiming(pb) == IF pb.ctx THEN pb.now ELSE pb.next

\* livekit.ts:280-295
interruptAudio(pb) ==
    [pb EXCEPT !.srcs  = StopSources(pb.srcs, pb.sched),
               !.sched = <<>>,
               !.next  = ResetTiming(pb),
               !.ints  = @ + 1]

SetPlayback(pb) ==
    /\ playbackAudioContext' = pb.ctx
    /\ currentTime' = pb.now
    /\ nextStartTime' = pb.next
    /\ scheduledSources' = pb.sched
    /\ sources' = pb.srcs
    /\ interrupts' = pb.ints

\* part_002:59-65  geminiService.onAudioResponse handler: playAudio runs to
\* its end in the calling task (it awaits nothing).
OnAudioResponse(d) ==
    /\ SetPlayback(playAudio(Playback, d))
    /\ UNCHANGED <<capVars, gemVars, appVars, toolVars>>

\* An interruptAudio() call (part_002:165-170, the voice-activity callback)
InterruptAudio ==
    /\ interrupts < MaxInterrupts
    /\ SetPlayback(interruptAudio(Playback))
    /\ UNCHANGED <<capVars, gemVars, appVars, toolVars>>

\* The output clock advances (AudioContext.currentTime)
Tick ==
    /\ playbackAudioContext
    /\ currentTime' = currentTime + 1
    /\ UNCHANGED <<playbackAudioContext, nextStartTime, scheduledSources,
                   sources, interrupts, capVars, gemVars, appVars, toolVars>>

\* livekit.ts:265-270  source.onended: the source removes itself
SourceEnded(id) ==
    /\ id \in Range(scheduledSources)
    /\ sources[id].start + sources[id].dur <= currentTime
    /\ scheduledSources' = Without(scheduledSources, id)
    /\ UNCHANGED <<playbackAudioContext, currentTime, nextStartTime,
                   sources, interrupts, capVars, gemVars, appVars, toolVars>>

\* livekit.ts:192-209
stopAudioCapture ==
    /\ processors' = [i \in DOMAIN processors |->
                        IF i = processor
                        THEN [processors[i] EXCEPT !.connected = FALSE]
                        ELSE processors[i]]
    /\ processor' = 0
    /\ audioContext' = FALSE
    /\ onAudioDataCallback' = FALSE

\* livekit.ts:307-331  LiveKitService.disconnect.  Closing the playback
\* context ends its sources; a later context starts its clock at 0.
LkDisconnect ==
    /\ stopAudioCapture
    /\ playbackAudioContext' = FALSE
    /\ currentTime' = 0
    /\ nextStartTime' = 0
    /\ scheduledSources' = <<>>
    /\ sources' = <<>>
    /\ interrupts' = 0
    /\ room' = FALSE
    /\ roomConnected' = FALSE
    /\ localAudioTrack' = "null"
    /\ UNCHANGED <<onVoiceActivityCallback, gemVars, appVars, toolVars>>

(***************************************************************************)
(* Messages written to the transport (HudGreeting.tsx:185-205, 368-375,    *)
(* 394-402, 423-430).  A tool response carries the call id and the result; *)
(* a result records the function whose handler produced it (fn), whether   *)
(* it has an `error` field, and whether the handler resolved with it or    *)
(* the session composed it (by).                                           *)
(***************************************************************************)
NoResult == [fn |-> "none", error |-> FALSE, by |-> "none"]

Outbound(type) == [type |-> type, id |-> "", result |-> NoResult]

ToolResponse(callId, result) ==
    [type |-> "toolResponse", id |-> callId, result |-> result]

(***************************************************************************)
(* Capture pipeline: LiveKitService.startAudioCapture / stopAudioCapture   *)
(* and the ScriptProcessor's onaudioprocess handler with its voice         *)
(* activity detection.                                                     *)
(***************************************************************************)
\* livekit.ts:122  0.02, in hundredths of full scale
VoiceActivityThreshold == 2

\* The captured frames followed (the code's have 4096 samples), in
\* hundredths: silence, frames whose rms is exactly the threshold, and
\* frames above it
Frames ==
    {<<0>>, <<0, 2>>, <<2, 2>>, <<2, -2, 2>>, <<-3, 0>>, <<3>>, <<-3, 2, 2>>}

RECURSIVE SumSq(_, _)
\* livekit.ts:160-163
SumSq(frame, n) ==
    IF n = 0 THEN 0 ELSE frame[n] * frame[n] + SumSq(frame, n - 1)

\* livekit.ts:164-165  rms = sqrt(sum / length); isActive = rms > threshold.
\* Both sides are non-negative, so the comparison is made on the squares.
IsActive(frame) ==
    SumSq(frame, Len(frame))
        > VoiceActivityThreshold * VoiceActivityThreshold * Len(frame)

\* A detector that reports the level of every frame, not the changes
LevelTriggered(isActive, wasActive) == isActive

\* livekit.ts:168  isActive !== wasActive
ActivityChanged(isActive, wasActive) == isActive # wasActive

\* A callback that interrupts on every activity event
InterruptOnAnyEvent(pb, isActive) == interruptAudio(pb)

\* part_002:165-170  the voice-activity callback Index registers
OnVoiceActivity(pb, isActive) ==
    IF isActive THEN interruptAudio(pb) ELSE pb

\* HudGreeting.tsx:360-382 called from part_002:158-164: a frame is written
\* to the transport when it is open, and the error is swallowed otherwise.
sendAudio(sent) ==
    IF ws = "OPEN" THEN Append(sent, Outbound("realtimeInput")) ELSE sent

\* livekit.ts:27-52  the room connects (a failed connect leaves room null)
LkConnect ==
    /\ ~room
    /\ room' = TRUE
    /\ roomConnected' = TRUE
    /\ UNCHANGED <<localAudioTrack, audioContext, processor, processors,
                   onAudioDataCallback, onVoiceActivityCallback,
                   playVars, gemVars, appVars, toolVars>>

\* livekit.ts:57-70  track is what the microphone publication holds
EnableMicrophone(track) ==
    /\ room
    /\ localAudioTrack' = track
    /\ UNCHANGED <<room, roomConnected, audioContext, processor, processors,
                   onAudioDataCallback, onVoiceActivityCallback,
                   playVars, gemVars, appVars, toolVars>>

\* livekit.ts:75-86
DisableMicrophone ==
    /\ room
    /\ localAudioTrack' = "null"
    /\ UNCHANGED <<room, roomConnected, audioContext, processor, processors,
                   onAudioDataCallback, onVoiceActivityCallback,
                   playVars, gemVars, appVars, toolVars>>

\* A node that takes over the detector state of the session before it
ProcessorKeepingActivity ==
    [connected |-> TRUE,
     wasActive |-> processors # <<>> /\ Last(processors).wasActive,
     lastClass |-> FALSE,
     changes   |-> 0,
     repeated  |-> FALSE,
     events    |-> <<>>,
     inflight  |-> TRUE,
     late      |-> FALSE]

\* livekit.ts:154  let wasActive = false, with the record of what this
\* processor was given (lastClass: whether its last frame was above the
\* threshold, changes: how often that changed, repeated: whether its last
\* frame continued a run) and of what it emitted (events).  The device
\* queues audioprocess events ahead of their delivery: inflight is the one
\* event that can still be delivered once the node is disconnected, and
\* late records that such an event invoked a callback.
NewProcessor ==
    [connected |-> TRUE,
     wasActive |-> FALSE,
     lastClass |-> FALSE,
     changes   |-> 0,
     repeated  |-> FALSE,
     events    |-> <<>>,
     inflight  |-> TRUE,
     late      |-> FALSE]

\* livekit.ts:130-187
StartAudioCapture ==
    /\ Len(processors) < MaxProcessors
    /\ IF localAudioTrack = "null"
       THEN UNCHANGED capVars                       \* 'Microphone not enabled'
       ELSE /\ onAudioDataCallback' = TRUE
            /\ onVoiceActivityCallback' = TRUE
            /\ IF localAudioTrack = "noStream"
               THEN UNCHANGED <<audioContext, processor, processors>>
               ELSE /\ audioContext' = TRUE
                    /\ processors' = Append(processors, NewProcessor)
                    /\ processor' = Len(processors) + 1
            /\ UNCHANGED <<room, roomConnected, localAudioTrack>>
    /\ UNCHANGED <<playVars, gemVars, appVars, toolVars>>

\* livekit.ts:192-209 called on its own (part_002:245)
StopAudioCapture ==
    /\ stopAudioCapture
    /\ UNCHANGED <<room, roomConnected, localAudioTrack, onVoiceActivityCallback,
                   playVars, gemVars, appVars, toolVars>>

\* livekit.ts:156-183  processor.onaudioprocess for one captured frame
OnAudioProcess(p, frame) ==
    /\ p \in DOMAIN processors
    /\ processors[p].connected \/ processors[p].inflight
    /\ LET pr       == processors[p]
           isActive == IsActive(frame)
           fire     == onVoiceActivityCallback
                         /\ ActivityChanged(isActive, pr.wasActive)
           changed  == isActive # pr.lastClass
       IN /\ changed => pr.changes < MaxChanges
          /\ (fire /\ isActive) => interrupts < MaxInterrupts
          /\ processors' =
               [processors EXCEPT ![p] =
                  [pr EXCEPT !.wasActive = IF fire THEN isActive ELSE @,
                             !.events    = IF fire THEN Append(@, isActive) ELSE @,
                             !.lastClass = isActive,
                             !.repeated  = ~changed,
                             !.changes   = IF changed THEN @ + 1 ELSE @,
                             !.inflight  = pr.connected,
                             !.late      = @ \/ (~pr.connected /\
                                             (fire \/ onAudioDataCallback))]]
          /\ SetPlayback(IF fire THEN OnVoiceActivity(Playback, isActive)
                                 ELSE Playback)
          /\ wsSent' = IF onAudioDataCallback THEN sendAudio(wsSent) ELSE wsSent
    /\ UNCHANGED <<room, roomConnected, localAudioTrack, audioContext,
                   processor, onAudioDataCallback, onVoiceActivityCallback,
                   ws, handlers, tasks, wire, dispatched, errorEvents,
                   connections, delivered, setupAcked, appVars, toolVars>>

(***************************************************************************)
(* Model session: GeminiService.                                           *)
(*                                                                         *)
(* An inbound message is what JSON.parse gives (or fails to give):         *)
(*   blob          the data arrived as a Blob and is read first            *)
(*   malformed     JSON.parse throws                                       *)
(*   setupComplete message.setupComplete                                   *)
(*   toolCalls     message.toolCall.functionCalls                          *)
(*   parts         message.serverContent.modelTurn.parts                   *)
(*   cancel        message.toolCallCancellation                            *)
(* A call is [id, name]; a part is audio (of a duration), text, or a       *)
(* function call in the old format.                                        *)
(***************************************************************************)
NoCall == [id |-> "", name |-> ""]

Call(id, name) == [id |-> id, name |-> name]

AudioPart(d) == [kind |-> "audio", dur |-> d, call |-> NoCall]

TextPart == [kind |-> "text", dur |-> 0, call |-> NoCall]

CallPart(call) == [kind |-> "functionCall", dur |-> 0, call |-> call]

Message(blob, toolCalls, parts) ==
    [blob |-> blob, malformed |-> FALSE, setupComplete |-> FALSE,
     toolCalls |-> toolCalls, parts |-> parts, cancel |-> FALSE]

\* The four handlers Index registers in one effect (part_002:55-131)
functionHandler == handlers
onAudioResponseHandler == handlers
onTextResponseHandler == handlers
onErrorHandler == handlers

\* A session that keeps the id of the call it dispatched last in a field of
\* its own and answers under it
LastDispatchedId(call) ==
    IF dispatched = <<>> THEN call.id ELSE dispatched[Len(dispatched)]

\* HudGreeting.tsx:464, 472  the id a response is sent under
ResponseId(call) == call.id

\* HudGreeting.tsx:468-470
ErrorResult(call) == [fn |-> call.name, error |-> TRUE, by |-> "session"]

\* HudGreeting.tsx:453-455
NoHandlerResult == [fn |-> "none", error |-> TRUE, by |-> "session"]

\* HudGreeting.tsx:416-442.  ok is FALSE when the call throws.
sendFunctionResult(sent, callId, result) ==
    IF ws # "OPEN" THEN [ok |-> FALSE, sent |-> sent]
    ELSE [ok |-> TRUE, sent |-> Append(sent, ToolResponse(callId, result))]

\* A session that only logs that no handler is registered
BeginFunctionCallSilent(sent, call) ==
    IF ~handlers THEN [status |-> "returned", sent |-> sent]
    ELSE [status |-> "pending", sent |-> sent]

\* HudGreeting.tsx:448-461  handleFunctionCall up to the await of the
\* handler: "pending" (handler called), "returned" or "threw".
BeginFunctionCall(sent, call) ==
    IF ~functionHandler
    THEN LET r == sendFunctionResult(sent, ResponseId(call), NoHandlerResult)
         IN [status |-> IF r.ok THEN "returned" ELSE "threw", sent |-> r.sent]
    ELSE [status |-> "pending", sent |-> sent]

\* A session whose catch block only logs the rejection
EndFunctionCallNoCatch(sent, call, outcome) ==
    IF outcome.kind = "resolve" /\ ws = "OPEN"
    THEN [status |-> "returned",
          sent |-> Append(sent, ToolResponse(call.id, outcome.result))]
    ELSE [status |-> "returned", sent |-> sent]

\* HudGreeting.tsx:461-473  handleFunctionCall from the settlement of the
\* handler's promise: the result is sent in the try block; a rejection, or
\* a send that throws, goes to the catch block, which sends the error result.
EndFunctionCall(sent, call, outcome) ==
    LET try == IF outcome.kind = "resolve"
               THEN sendFunctionResult(sent, ResponseId(call), outcome.result)
               ELSE [ok |-> FALSE, sent |-> sent]
    IN IF try.ok THEN [status |-> "returned", sent |-> try.sent]
       ELSE LET catch == sendFunctionResult(try.sent, ResponseId(call),
                                            ErrorResult(call))
            IN [status |-> IF catch.ok THEN "returned" ELSE "threw",
                sent   |-> catch.sent]

\* What the function handler (part_002:86-130) can settle with for a call
Outcomes(call) ==
    {[kind |-> "resolve",
      result |-> [fn |-> call.name, error |-> e, by |-> "handler"]]
        : e \in BOOLEAN}
    \cup {[kind |-> "reject", result |-> NoResult]}

\* A content part handed to its handler: part j of the t-th message received
Delivery(kind, t, j) == [kind |-> kind, t |-> t, j |-> j]

\* What one task changes: the transport log, the playback state, the error
\* events, the calls dispatched, and its own position.
Running(t) ==
    [sent |-> wsSent, pb |-> Playback, errs |-> errorEvents,
     disp |-> dispatched, dlv |-> delivered, ack |-> setupAcked,
     t |-> t, pc |-> "run", i |-> 0, j |-> 0]

\* HudGreeting.tsx:324-329  the catch block of handleMessage
Caught(st) ==
    [st EXCEPT !.pc = "done",
               !.errs = IF onErrorHandler THEN @ + 1 ELSE @]

RECURSIVE RunParts(_, _, _)
\* HudGreeting.tsx:275-322  the parts from part j on, then the end
RunParts(st, msg, j) ==
    IF j > Len(msg.parts) THEN [st EXCEPT !.pc = "done"]
    ELSE
      LET part == msg.parts[j] IN
      CASE part.kind = "audio" ->
             RunParts(IF onAudioResponseHandler
                      THEN [st EXCEPT !.pb = playAudio(@, part.dur),
                                      !.dlv = Append(@, Delivery("audio", st.t, j))]
                      ELSE st,
                      msg, j + 1)
        [] part.kind = "text" ->
             RunParts(IF onTextResponseHandler
                      THEN [st EXCEPT !.dlv = Append(@, Delivery("text", st.t, j))]
                      ELSE st,
                      msg, j + 1)
        [] part.kind = "functionCall" ->
             LET r == BeginFunctionCall(st.sent, part.call) IN
             CASE r.status = "pending" ->
                    [st EXCEPT !.pc = "partCall", !.j = j,
                               !.disp = Append(@, part.call.id)]
               [] r.status = "threw" -> Caught(st)
               [] r.status = "returned" ->
                    RunParts([st EXCEPT !.sent = r.sent], msg, j + 1)

RECURSIVE RunToolCalls(_, _, _)
\* HudGreeting.tsx:260-272  the calls of the batch from call i on: each
\* handleFunctionCall is awaited before the next call is looked at
RunToolCalls(st, msg, i) ==
    IF i > Len(msg.toolCalls) THEN RunParts(st, msg, 1)
    ELSE
      LET r == BeginFunctionCall(st.sent, msg.toolCalls[i]) IN
      CASE r.status = "pending" ->
             [st EXCEPT !.pc = "toolCall", !.i = i,
                        !.disp = Append(@, msg.toolCalls[i].id)]
        [] r.status = "threw" -> Caught(st)
        [] r.status = "returned" ->
             RunToolCalls([st EXCEPT !.sent = r.sent], msg, i + 1)

\* A session that handles whatever it can read of a text that does not parse
HandleParsedLenient(st, msg) ==
    IF msg.setupComplete THEN [st EXCEPT !.pc = "done", !.ack = TRUE]
    ELSE RunToolCalls(st, msg, 1)

\* HudGreeting.tsx:246-257  from JSON.parse on
HandleParsed(st, msg) ==
    IF msg.malformed THEN Caught(st)
    ELSE IF msg.setupComplete THEN [st EXCEPT !.pc = "done", !.ack = TRUE]
    ELSE RunToolCalls(st, msg, 1)

SetRun(st) ==
    /\ wsSent' = st.sent
    /\ SetPlayback(st.pb)
    /\ errorEvents' = st.errs
    /\ dispatched' = st.disp
    /\ delivered' = st.dlv
    /\ setupAcked' = st.ack

Task(msg, st) == [msg |-> msg, pc |-> st.pc, i |-> st.i, j |-> st.j]

\* part_002:55-131  Index registers its handlers
RegisterHandlers ==
    /\ ~handlers
    /\ handlers' = TRUE
    /\ UNCHANGED <<ws, wsSent, tasks, wire, dispatched, errorEvents,
                   connections, delivered, setupAcked, playVars, capVars, appVars, toolVars>>

\* HudGreeting.tsx:168-181  connect(): new WebSocket(url)
GConnect ==
    /\ ws = "null"
    /\ connections < MaxConnections
    /\ ws' = "CONNECTING"
    /\ connections' = connections + 1
    /\ setupAcked' = FALSE
    /\ UNCHANGED <<wsSent, handlers, tasks, wire, dispatched, errorEvents,
                   delivered, playVars, capVars, appVars, toolVars>>

\* HudGreeting.tsx:183-213  ws.onopen: the setup message is sent
WsOnOpen ==
    /\ ws = "CONNECTING"
    /\ ws' = "OPEN"
    /\ wsSent' = Append(wsSent, Outbound("setup"))
    /\ UNCHANGED <<handlers, tasks, wire, dispatched, errorEvents,
                   connections, delivered, setupAcked, playVars, capVars, appVars, toolVars>>

\* The transport closes under the session (ws.onclose, HudGreeting.tsx:224)
WsOnClose ==
    /\ ws \in {"CONNECTING", "OPEN"}
    /\ ws' = "CLOSED"
    /\ UNCHANGED <<wsSent, handlers, tasks, wire, dispatched, errorEvents,
                   connections, delivered, setupAcked, playVars, capVars, appVars, toolVars>>

\* HudGreeting.tsx:518-523
GDisconnect ==
    /\ ws # "null"
    /\ ws' = "null"
    /\ UNCHANGED <<wsSent, handlers, tasks, wire, dispatched, errorEvents,
                   connections, delivered, setupAcked, playVars, capVars, appVars, toolVars>>

\* HudGreeting.tsx:220-222, 236-245  ws.onmessage: a message event is
\* delivered only while the socket is open
WsOnMessage ==
    /\ ws = "OPEN"
    /\ wire # <<>>
    /\ LET msg == Head(wire)
           t   == Len(tasks) + 1
           st  == IF msg.blob THEN [Running(t) EXCEPT !.pc = "blob"]
                  ELSE HandleParsed(Running(t), msg)
       IN /\ tasks' = Append(tasks, Task(msg, st))
          /\ SetRun(st)
    /\ wire' = Tail(wire)
    /\ UNCHANGED <<ws, handlers, connections, capVars, appVars, toolVars>>

\* HudGreeting.tsx:240-241  await data.text() resolves
BlobRead(t) ==
    /\ t \in DOMAIN tasks
    /\ tasks[t].pc = "blob"
    /\ LET st == HandleParsed(Running(t), tasks[t].msg)
       IN /\ tasks' = [tasks EXCEPT ![t] = Task(tasks[t].msg, st)]
          /\ SetRun(st)
    /\ UNCHANGED <<ws, handlers, wire, connections, capVars, appVars, toolVars>>

\* The call a suspended task is waiting on
PendingCall(task) ==
    IF task.pc = "toolCall" THEN task.msg.toolCalls[task.i]
    ELSE task.msg.parts[task.j].call

\* HudGreeting.tsx:461  await this.functionHandler(call) settles, and the
\* task runs on to its next pending await
HandlerSettles(t, outcome) ==
    /\ t \in DOMAIN tasks
    /\ tasks[t].pc \in {"toolCall", "partCall"}
    /\ outcome \in Outcomes(PendingCall(tasks[t]))
    /\ LET task == tasks[t]
           r    == EndFunctionCall(wsSent, PendingCall(task), outcome)
           st0  == [Running(t) EXCEPT !.sent = r.sent]
           st   == IF r.status = "threw" THEN Caught(st0)
                   ELSE IF task.pc = "toolCall"
                        THEN RunToolCalls(st0, task.msg, task.i + 1)
                        ELSE RunParts(st0, task.msg, task.j + 1)
       IN /\ tasks' = [tasks EXCEPT ![t] = Task(task.msg, st)]
          /\ SetRun(st)
    /\ UNCHANGED <<ws, handlers, wire, connections, capVars, appVars, toolVars>>

InitPlayback ==
    /\ playbackAudioContext = FALSE
    /\ currentTime = 0
    /\ nextStartTime = 0
    /\ scheduledSources = <<>>
    /\ sources = <<>>
    /\ interrupts = 0

InitCapture ==
    /\ room = FALSE
    /\ roomConnected = FALSE
    /\ localAudioTrack = "null"
    /\ audioContext = FALSE
    /\ processor = 0
    /\ processors = <<>>
    /\ onAudioDataCallback = FALSE
    /\ onVoiceActivityCallback = FALSE

InitGemini ==
    /\ ws = "null"
    /\ wsSent = <<>>
    /\ handlers = FALSE
    /\ tasks = <<>>
    /\ wire = <<>>
    /\ dispatched = <<>>
    /\ errorEvents = 0
    /\ connections = 0
    /\ delivered = <<>>
    /\ setupAcked = FALSE

\* part_002:24-26  useState(false)
InitApp ==
    /\ isConnected = FALSE
    /\ isMicEnabled = FALSE
    /\ connectPc = "idle"
    /\ teardown = <<>>
    /\ mounted = TRUE
    /\ togglePc = "idle"

\* No function call is being routed and no sample converted
InitTools ==
    /\ routing = [phase |-> "idle"]
    /\ conversion = [phase |-> "idle"]

Init == InitPlayback /\ InitCapture /\ InitGemini /\ InitApp /\ InitTools

(***************************************************************************)
(* PlaybackSpec: the playback scheduler under every order of enqueues,     *)
(* interruptions, clock advances, ended sources and disconnects.           *)
(***************************************************************************)
PlaybackNext ==
    \/ \E d \in 0..MaxDur : Len(sources) < MaxFrames /\ OnAudioResponse(d)
    \/ InterruptAudio
    \/ currentTime < MaxClock /\ Tick
    \/ \E id \in 1..MaxFrames : SourceEnded(id)
    \/ LkDisconnect

PlaybackSpec == Init /\ [][PlaybackNext]_vars

(***************************************************************************)
(* CaptureSpec: the capture pipeline and its voice-activity detector,      *)
(* wired to the playback scheduler as Index wires them.                    *)
(***************************************************************************)
CaptureNext ==
    \/ LkConnect
    \/ \E track \in {"null", "track", "noStream"} : EnableMicrophone(track)
    \/ DisableMicrophone
    \/ StartAudioCapture
    \/ StopAudioCapture
    \/ \E p \in 1..MaxProcessors, frame \in Frames : OnAudioProcess(p, frame)
    \/ \E d \in {0, CaptureDur} : Len(sources) < CaptureFrames /\ OnAudioResponse(d)
    \/ currentTime < CaptureClock /\ Tick
    \/ \E id \in 1..CaptureFrames : SourceEnded(id)
    \/ LkDisconnect

CaptureSpec == Init /\ [][CaptureNext]_vars

(***************************************************************************)
(* SessionSpec: the model session receiving the messages of a scenario,    *)
(* with the function handlers settling in any order.                       *)
(***************************************************************************)
CallA == Call("a", "get_weather")
CallB == Call("b", "web_search")
CallC == Call("c", "spotify_control")
CallD == Call("d", "send_email")

SessionMessages ==
    {Message(FALSE, <<CallA, CallB>>, <<>>),
     Message(TRUE, <<CallC>>, <<>>),
     Message(FALSE, <<>>, <<TextPart, CallPart(CallD), AudioPart(1)>>)}

AllCalls == {CallA, CallB, CallC, CallD}

\* Sequences of up to MaxMessages different messages
Wires(S) ==
    UNION {{w \in [1..n -> S] : \A i, j \in 1..n : i # j => w[i] # w[j]}
              : n \in 1..MaxMessages}

SessionInit ==
    /\ InitPlayback
    /\ InitCapture
    /\ ws = "null"
    /\ wsSent = <<>>
    /\ handlers = FALSE
    /\ tasks = <<>>
    /\ wire \in Wires(SessionMessages)
    /\ dispatched = <<>>
    /\ errorEvents = 0
    /\ connections = 0
    /\ delivered = <<>>
    /\ setupAcked = FALSE
    /\ InitApp
    /\ InitTools

AllOutcomes == UNION {Outcomes(c) : c \in AllCalls}

SessionNext ==
    \/ RegisterHandlers
    \/ GConnect
    \/ WsOnOpen
    \/ WsOnClose
    \/ GDisconnect
    \/ WsOnMessage
    \/ \E t \in 1..MaxMessages : BlobRead(t)
    \/ \E t \in 1..MaxMessages, o \in AllOutcomes : HandlerSettles(t, o)

SessionSpec == SessionInit /\ [][SessionNext]_vars

\* A handler that was called settles, and a Blob that is read is read
SessionFairSpec ==
    /\ SessionSpec
    /\ \A t \in 1..MaxMessages :
          /\ WF_vars(\E o \in AllOutcomes : HandlerSettles(t, o))
          /\ WF_vars(BlobRead(t))

(***************************************************************************)
(* InboundSpec: handleMessage on the kinds of message the transport can    *)
(* deliver on one open socket, the handlers registered at any moment.      *)
(***************************************************************************)
\* message.setupComplete
SetupCompleteMessage ==
    [Message(TRUE, <<>>, <<>>) EXCEPT !.setupComplete = TRUE]

\* Text JSON.parse throws on; parts is what the text was cut from
MalformedMessage ==
    [Message(FALSE, <<>>, <<AudioPart(1)>>) EXCEPT !.malformed = TRUE]

\* serverContent arriving as a Blob
BlobContentMessage == Message(TRUE, <<>>, <<AudioPart(1), TextPart>>)

\* serverContent arriving as a string
ContentMessage == Message(FALSE, <<>>, <<TextPart, AudioPart(2)>>)

\* toolCall.functionCalls and serverContent in one message
MixedMessage == Message(FALSE, <<CallA>>, <<AudioPart(2)>>)

InboundMessages ==
    {SetupCompleteMessage, MalformedMessage, BlobContentMessage,
     ContentMessage, MixedMessage}

InboundInit ==
    /\ InitPlayback
    /\ InitCapture
    /\ InitApp
    /\ InitTools
    /\ ws = "null"
    /\ wsSent = <<>>
    /\ handlers = FALSE
    /\ tasks = <<>>
    /\ wire \in Wires(InboundMessages)
    /\ dispatched = <<>>
    /\ errorEvents = 0
    /\ connections = 0
    /\ delivered = <<>>
    /\ setupAcked = FALSE

InboundNext ==
    \/ RegisterHandlers
    \/ GConnect
    \/ WsOnOpen
    \/ WsOnMessage
    \/ \E t \in 1..MaxMessages : BlobRead(t)
    \/ \E t \in 1..MaxMessages, o \in Outcomes(CallA) : HandlerSettles(t, o)

InboundSpec == InboundInit /\ [][InboundNext]_vars

(***************************************************************************)
(* Index: handleConnect and handleDisconnect (part_002:133-240).  A task   *)
(* of the page calls the two services one after the other; Services is the *)
(* state those calls read and write, and log lists the calls made, each    *)
(* with what it found.                                                     *)
(***************************************************************************)
Services ==
    [pb                      |-> Playback,
     room                    |-> room,
     roomConnected           |-> roomConnected,
     localAudioTrack         |-> localAudioTrack,
     audioContext            |-> audioContext,
     processor               |-> processor,
     processors              |-> processors,
     onAudioDataCallback     |-> onAudioDataCallback,
     onVoiceActivityCallback |-> onVoiceActivityCallback,
     ws                      |-> ws,
     sent                    |-> wsSent,
     isConnected             |-> isConnected,
     isMicEnabled            |-> isMicEnabled,
     log                     |-> <<>>]

SetServices(s) ==
    /\ SetPlayback(s.pb)
    /\ room' = s.room
    /\ roomConnected' = s.roomConnected
    /\ localAudioTrack' = s.localAudioTrack
    /\ audioContext' = s.audioContext
    /\ processor' = s.processor
    /\ processors' = s.processors
    /\ onAudioDataCallback' = s.onAudioDataCallback
    /\ onVoiceActivityCallback' = s.onVoiceActivityCallback
    /\ ws' = s.ws
    /\ wsSent' = s.sent
    /\ isConnected' = s.isConnected
    /\ isMicEnabled' = s.isMicEnabled

\* What a call finds: whether the capture is stopped (no processor, no
\* audio-data callback), the socket, and the sources still scheduled
Found(op, s) ==
    [op             |-> op,
     captureStopped |-> s.processor = 0 /\ ~s.onAudioDataCallback,
     ws             |-> s.ws,
     scheduled      |-> Len(s.pb.sched)]

\* One call of a teardown, on the state the calls before it left
Step(op, s) ==
    LET t == [s EXCEPT !.log = Append(@, Found(op, s))] IN
    CASE op = "stopAudioCapture" ->                    \* livekit.ts:192-209
           [t EXCEPT !.processors =
                        [i \in DOMAIN s.processors |->
                            IF i = s.processor
                            THEN [s.processors[i] EXCEPT !.connected = FALSE]
                            ELSE s.processors[i]],
                     !.processor = 0,
                     !.audioContext = FALSE,
                     !.onAudioDataCallback = FALSE]
      [] op = "interruptAudio" ->                      \* livekit.ts:280-295
           [t EXCEPT !.pb = interruptAudio(s.pb)]
      [] op = "closePlayback" ->                       \* livekit.ts:311-314, 328
           [t EXCEPT !.pb = [ctx |-> FALSE, now |-> 0, next |-> 0,
                             sched |-> <<>>, srcs |-> <<>>, ints |-> 0]]
      [] op = "roomDisconnect" ->                      \* livekit.ts:316-319, 327
           [t EXCEPT !.room = FALSE,
                     !.roomConnected = FALSE,
                     !.localAudioTrack = "null"]
      [] op = "geminiDisconnect" ->                    \* HudGreeting.tsx:518-523
           [t EXCEPT !.ws = "null"]
      [] op = "setDisconnected" ->                     \* part_002:230-231
           [t EXCEPT !.isConnected = FALSE, !.isMicEnabled = FALSE]

RECURSIVE RunSteps(_, _)
RunSteps(ops, s) ==
    IF ops = <<>> THEN s ELSE RunSteps(Tail(ops), Step(Head(ops), s))

\* livekit.ts:307-331  LiveKitService.disconnect
LiveKitDisconnectSteps ==
    <<"stopAudioCapture", "interruptAudio", "closePlayback", "roomDisconnect">>

\* A page that closes the model session before it stops the capture
SessionFirstSteps ==
    <<"geminiDisconnect">> \o LiveKitDisconnectSteps \o <<"setDisconnected">>

\* part_002:228-231  handleDisconnect
HandleDisconnectSteps ==
    LiveKitDisconnectSteps \o <<"geminiDisconnect", "setDisconnected">>

\* livekit.ts:130-187 as handleConnect calls it; ok is FALSE when it throws
startAudioCapture(s) ==
    IF s.localAudioTrack = "null" THEN [ok |-> FALSE, s |-> s]
    ELSE
      LET c == [s EXCEPT !.onAudioDataCallback = TRUE,
                         !.onVoiceActivityCallback = TRUE]
      IN IF s.localAudioTrack = "noStream" THEN [ok |-> FALSE, s |-> c]
         ELSE [ok |-> TRUE,
               s  |-> [c EXCEPT !.audioContext = TRUE,
                                !.processors = Append(@, NewProcessor),
                                !.processor = Len(s.processors) + 1]]

\* HudGreeting.tsx:388-409
sendText(s) ==
    IF s.ws # "OPEN" THEN [ok |-> FALSE, s |-> s]
    ELSE [ok |-> TRUE,
          s  |-> [s EXCEPT !.sent = Append(@, Outbound("clientContent"))]]

\* part_002:194-209  the catch block of handleConnect
Cleanup(s) ==
    LET u == [s EXCEPT !.isConnected = FALSE, !.isMicEnabled = FALSE]
        g == IF u.ws = "OPEN" THEN Step("geminiDisconnect", u) ELSE u
    IN IF g.room /\ g.roomConnected
       THEN RunSteps(LiveKitDisconnectSteps, g)
       ELSE g

\* What the tasks of the page leave alone in the model session
sessionRest ==
    <<handlers, tasks, wire, dispatched, errorEvents, connections, delivered>>

\* part_002:133-143, HudGreeting.tsx:168-181  the button is pressed:
\* handleConnect runs up to the await of geminiService.connect
HandleConnect ==
    /\ mounted
    /\ handlers
    /\ ~isConnected
    /\ connectPc \in {"idle", "done", "failed"}
    /\ connections < MaxConnections
    /\ ws' = "CONNECTING"
    /\ connections' = connections + 1
    /\ setupAcked' = FALSE
    /\ connectPc' = "gemini"
    /\ UNCHANGED <<toolVars, wsSent, handlers, tasks, wire, dispatched, errorEvents,
                   delivered, isConnected, isMicEnabled, teardown,
                   mounted, togglePc, playVars, capVars>>

\* A socket whose onopen resolves connect() without writing anything
ConnectOpenedNoSetup ==
    /\ connectPc = "gemini"
    /\ ws = "CONNECTING"
    /\ ws' = "OPEN"
    /\ connectPc' = "token"
    /\ UNCHANGED <<toolVars, wsSent, sessionRest, setupAcked, isConnected, isMicEnabled,
                   teardown, mounted, togglePc, playVars, capVars>>

\* HudGreeting.tsx:183-213, part_002:146  ws.onopen sends the setup message
\* and resolves connect(); handleConnect goes on to fetch the token
ConnectOpened ==
    /\ connectPc = "gemini"
    /\ ws = "CONNECTING"
    /\ ws' = "OPEN"
    /\ wsSent' = Append(wsSent, Outbound("setup"))
    /\ connectPc' = "token"
    /\ UNCHANGED <<toolVars, sessionRest, setupAcked, isConnected, isMicEnabled,
                   teardown, mounted, togglePc, playVars, capVars>>

\* HudGreeting.tsx:215-218  ws.onerror rejects connect()
ConnectRejected ==
    /\ connectPc = "gemini"
    /\ ws = "CONNECTING"
    /\ SetServices(Cleanup([Services EXCEPT !.ws = "CLOSED"]))
    /\ connectPc' = "failed"
    /\ UNCHANGED <<toolVars, sessionRest, setupAcked, teardown, mounted, togglePc>>

\* part_002:146-149, livekit.ts:27-47  fetchLiveKitToken settles; with a
\* token, liveKitService.connect runs up to the await of room.connect
TokenFetched(ok) ==
    /\ connectPc = "token"
    /\ LET go == ok /\ ~room
       IN /\ SetServices(IF go THEN [Services EXCEPT !.room = TRUE]
                               ELSE Cleanup(Services))
          /\ connectPc' = IF go THEN "room" ELSE "failed"
    /\ UNCHANGED <<toolVars, sessionRest, setupAcked, teardown, mounted, togglePc>>

\* livekit.ts:47-51, part_002:150-153, livekit.ts:57-63  room.connect
\* settles; connected, handleConnect goes on to enable the microphone
RoomConnectSettled(ok) ==
    /\ connectPc = "room"
    /\ SetServices(IF ok
                   THEN [Services EXCEPT !.roomConnected = TRUE,
                                         !.isConnected = TRUE]
                   ELSE Cleanup([Services EXCEPT !.room = FALSE]))
    /\ connectPc' = IF ok THEN "mic" ELSE "failed"
    /\ UNCHANGED <<toolVars, sessionRest, setupAcked, teardown, mounted, togglePc>>

\* livekit.ts:63-69, part_002:154-193  setMicrophoneEnabled settles (track
\* is what the publication holds, or "reject"); handleConnect starts the
\* capture and sends the greeting, to its end
MicrophoneSettled(track) ==
    /\ connectPc = "mic"
    /\ LET enabled == track # "reject" /\ room
           cap     == startAudioCapture(
                          [Services EXCEPT !.localAudioTrack = track,
                                           !.isMicEnabled = TRUE])
           txt     == sendText(cap.s)
           ok      == enabled /\ cap.ok /\ txt.ok
       IN /\ SetServices(IF ~enabled THEN Cleanup(Services)
                         ELSE IF ~cap.ok THEN Cleanup(cap.s)
                         ELSE IF ~txt.ok THEN Cleanup(txt.s)
                         ELSE txt.s)
          /\ connectPc' = IF ok THEN "done" ELSE "failed"
    /\ UNCHANGED <<toolVars, sessionRest, setupAcked, teardown, mounted, togglePc>>

\* part_002:215-240  handleDisconnect
HandleDisconnect ==
    /\ mounted
    /\ isConnected
    /\ LET s == RunSteps(HandleDisconnectSteps, Services)
       IN SetServices(s) /\ teardown' = s.log
    /\ UNCHANGED <<toolVars, sessionRest, setupAcked, connectPc, mounted, togglePc>>

\* part_002:242-249, livekit.ts:57-63, 75-81, 192-209  the microphone button
\* is pressed: toggleMicrophone runs up to the await of setMicrophoneEnabled
\* (a call that throws ends in the toast)
ToggleMicrophone ==
    /\ mounted
    /\ isConnected
    /\ togglePc = "idle"
    /\ SetServices(IF isMicEnabled THEN Step("stopAudioCapture", Services)
                   ELSE Services)
    /\ togglePc' = IF ~room THEN "idle"
                   ELSE IF isMicEnabled THEN "muting" ELSE "unmuting"
    /\ UNCHANGED <<toolVars, sessionRest, setupAcked, teardown, connectPc, mounted>>

\* livekit.ts:81-85, part_002:247  setMicrophoneEnabled(false) settles
MuteSettled(ok) ==
    /\ togglePc = "muting"
    /\ SetServices(IF ok THEN [Services EXCEPT !.localAudioTrack = "null",
                                               !.isMicEnabled = FALSE]
                   ELSE Services)
    /\ togglePc' = "idle"
    /\ UNCHANGED <<toolVars, sessionRest, setupAcked, teardown, connectPc, mounted>>

\* livekit.ts:63-69, part_002:250-265  setMicrophoneEnabled(true) settles
\* (track is what the publication holds, or "reject"); toggleMicrophone
\* starts the capture, to its end
UnmuteSettled(track) ==
    /\ togglePc = "unmuting"
    /\ LET enabled == track # "reject" /\ room
           cap     == startAudioCapture(
                          [Services EXCEPT !.localAudioTrack = track])
       IN SetServices(IF ~enabled THEN Services
                      ELSE IF ~cap.ok THEN cap.s
                      ELSE [cap.s EXCEPT !.isMicEnabled = TRUE])
    /\ togglePc' = "idle"
    /\ UNCHANGED <<toolVars, sessionRest, setupAcked, teardown, connectPc, mounted>>

\* part_002:39-52, livekit.ts:300-302, HudGreeting.tsx:528-530  the page is
\* unmounted: each service is disconnected if it is connected
Unmount ==
    /\ mounted
    /\ LET l == IF room /\ roomConnected
                THEN RunSteps(LiveKitDisconnectSteps, Services)
                ELSE Services
           g == IF l.ws = "OPEN" THEN Step("geminiDisconnect", l) ELSE l
       IN SetServices(g)
    /\ mounted' = FALSE
    /\ UNCHANGED <<toolVars, sessionRest, setupAcked, teardown, connectPc, togglePc>>

\* The room loses its connection (room.state leaves 'connected'); the
\* service listens to no such event (livekit.ts:336-344)
RoomDropped ==
    /\ room
    /\ roomConnected
    /\ roomConnected' = FALSE
    /\ UNCHANGED <<room, localAudioTrack, audioContext, processor, processors,
                   onAudioDataCallback, onVoiceActivityCallback,
                   playVars, gemVars, appVars, toolVars>>

(***************************************************************************)
(* AppSpec: the page starting and stopping a conversation, with the        *)
(* handshake acknowledgment arriving, frames being captured, the socket    *)
(* closing and the room dropping at any moment.                            *)
(***************************************************************************)
\* A silent frame and a loud one
AppFrames == {<<0>>, <<3>>}

AppInit ==
    /\ InitPlayback
    /\ InitCapture
    /\ InitApp
    /\ InitTools
    /\ ws = "null"
    /\ wsSent = <<>>
    /\ handlers = FALSE
    /\ tasks = <<>>
    /\ wire = <<SetupCompleteMessage, BlobContentMessage>>
    /\ dispatched = <<>>
    /\ errorEvents = 0
    /\ connections = 0
    /\ delivered = <<>>
    /\ setupAcked = FALSE

AppNext ==
    \/ RegisterHandlers
    \/ HandleConnect
    \/ ConnectOpened
    \/ ConnectRejected
    \/ \E ok \in BOOLEAN : TokenFetched(ok)
    \/ \E ok \in BOOLEAN : RoomConnectSettled(ok)
    \/ \E track \in {"track", "null", "noStream", "reject"} :
          Len(processors) < MaxProcessors /\ MicrophoneSettled(track)
    \/ HandleDisconnect
    \/ Unmount
    \/ RoomDropped
    \/ ws = "OPEN" /\ WsOnClose
    \/ WsOnMessage
    \/ \E t \in 1..MaxMessages : BlobRead(t)
    \/ \E p \in 1..MaxProcessors, frame \in AppFrames :
          Len(wsSent) < MaxSent /\ OnAudioProcess(p, frame)

AppSpec == AppInit /\ [][AppNext]_vars

(***************************************************************************)
(* MicSpec: the page with its microphone button: a conversation is        *)
(* started, muted, unmuted and stopped while frames are captured.          *)
(***************************************************************************)
MicNext ==
    \/ RegisterHandlers
    \/ HandleConnect
    \/ ConnectOpened
    \/ TokenFetched(TRUE)
    \/ RoomConnectSettled(TRUE)
    \/ \E track \in {"track", "reject"} :
          Len(processors) < MaxCaptures /\ MicrophoneSettled(track)
    \/ HandleDisconnect
    \/ ToggleMicrophone
    \/ \E ok \in BOOLEAN : MuteSettled(ok)
    \/ \E track \in {"track", "reject"} :
          Len(processors) < MaxCaptures /\ UnmuteSettled(track)
    \/ \E p \in 1..MaxCaptures, frame \in AppFrames :
          Len(wsSent) < MaxSent /\ OnAudioProcess(p, frame)

MicSpec == AppInit /\ [][MicNext]_vars

(***************************************************************************)
(* functionRouter: routeFunctionCall and its four handlers                 *)
(* (functionRouter.ts:29-333), the weather tool (websearch.ts:103-126) and *)
(* the function-call handler of the page (part_002:86-130).  An optional   *)
(* number is <<>> (undefined) or <<n>>; an absent or empty string is "".   *)
(* A completion is a return or a throw, with the requests made to the      *)
(* outside on the way.                                                     *)
(***************************************************************************)
Undefined == <<>>

Defined(v) == v # Undefined

\* The truth value JavaScript gives an optional number
Truthy(v) == Defined(v) /\ v[1] # 0

\* A result value: whether it has an error key, and its internal fields
Value(error) ==
    [error          |-> error,
     tokenRefreshed |-> "absent",
     newAccessToken |-> "absent",
     newTokenExpiry |-> "absent"]

Returned(result, trace) == [kind |-> "return", result |-> result, trace |-> trace]

Thrown(trace) == [kind |-> "throw", result |-> Value(TRUE), trace |-> trace]

\* A request made to the outside
Request(op) ==
    [op |-> op, token |-> "none", lat |-> Undefined, lon |-> Undefined, city |-> ""]

\* The request fails in this world
Fails(op, world) == world.fails = op

\* functionRouter.ts:64-82
handleWebSearch(call, settings, world) ==
    IF ~call.args THEN Thrown(<<>>)
    ELSE Returned(Value(Fails("webSearch", world)), <<Request("webSearch")>>)

\* websearch.ts:103-126 (the weather tool)
getCurrentWeather(params, apiKey, world) ==
    IF ~apiKey THEN Thrown(<<>>)
    ELSE IF params.city = "" /\ (~Truthy(params.lat) \/ ~Truthy(params.lon))
    THEN Thrown(<<>>)
    ELSE LET request ==
               IF Defined(params.lat) /\ Defined(params.lon)
               THEN [Request("weather") EXCEPT !.lat = params.lat,
                                               !.lon = params.lon]
               ELSE [Request("weather") EXCEPT !.city = params.city]
         IN IF Fails("weather", world) THEN Thrown(<<request>>)
            ELSE Returned(Value(FALSE), <<request>>)

\* What geolocateIP reports (geo.ts)
GeoLocation == [city |-> "", lat |-> <<3>>, lon |-> <<4>>]

\* functionRouter.ts:98-134  the location the lookup is made for, with the
\* geolocation request when one is made (ok is FALSE when it throws)
WeatherParams(call, settings, world) ==
    IF Defined(call.lat) /\ Defined(call.lon)
    THEN [ok |-> TRUE, trace |-> <<>>,
          params |-> [city |-> "", lat |-> call.lat, lon |-> call.lon]]
    ELSE IF call.city # ""
    THEN [ok |-> TRUE, trace |-> <<>>,
          params |-> [city |-> call.city, lat |-> Undefined, lon |-> Undefined]]
    ELSE IF settings.city # ""
    THEN [ok |-> TRUE, trace |-> <<>>,
          params |-> [city |-> settings.city, lat |-> Undefined, lon |-> Undefined]]
    ELSE IF Defined(settings.lat) /\ Defined(settings.lon)
    THEN [ok |-> TRUE, trace |-> <<>>,
          params |-> [city |-> "", lat |-> settings.lat, lon |-> settings.lon]]
    ELSE [ok     |-> ~Fails("geolocateIP", world),
          trace  |-> <<Request("geolocateIP")>>,
          params |-> [GeoLocation EXCEPT !.city = ""]]

\* functionRouter.ts:87-150
handleGetWeather(call, settings, world) ==
    IF ~call.args THEN Thrown(<<>>)
    ELSE IF ~settings.weatherApiKey THEN Returned(Value(TRUE), <<>>)
    ELSE LET where == WeatherParams(call, settings, world)
             got   == getCurrentWeather(where.params, settings.weatherApiKey, world)
         IN IF ~where.ok THEN Returned(Value(TRUE), where.trace)
            ELSE Returned(Value(got.kind = "throw"), where.trace \o got.trace)

\* functionRouter.ts:157-188
handleSendEmail(call, settings, world) ==
    IF ~call.args THEN Thrown(<<>>)
    ELSE IF ~settings.smtp THEN Returned(Value(TRUE), <<>>)
    ELSE Returned(Value(Fails("sendEmail", world)), <<Request("sendEmail")>>)

\* The refresh window of functionRouter.ts:210 (300000 ms), in minutes
RefreshWindow == 5

\* A router that refreshes only a token that has expired
NeedsRefreshOnceExpired(settings, world) ==
    /\ settings.spotifyTokenExpiry # 0
    /\ world.now >= settings.spotifyTokenExpiry

\* functionRouter.ts:210  (an expiry that is not stored is 0)
NeedsRefresh(settings, world) ==
    /\ settings.spotifyTokenExpiry # 0
    /\ world.now >= settings.spotifyTokenExpiry - RefreshWindow

\* functionRouter.ts:233-243
addTokenInfo(response, tokenRefreshed, accessToken, newTokenExpiry) ==
    IF tokenRefreshed
    THEN [response EXCEPT !.tokenRefreshed = "true",
                          !.newAccessToken = accessToken,
                          !.newTokenExpiry = newTokenExpiry]
    ELSE response

\* A request to the Spotify Web API carrying a token
SpotifyRequest(token) == [Request("spotify") EXCEPT !.token = token]

\* functionRouter.ts:245-332  the action, once the token is settled
SpotifyAction(call, world, before, tokenRefreshed, accessToken, newTokenExpiry) ==
    LET api    == SpotifyRequest(accessToken)
        failed == Fails("spotify", world)
        done(trace) ==
            IF failed THEN Returned(Value(TRUE), before \o trace)
            ELSE Returned(addTokenInfo(Value(FALSE), tokenRefreshed,
                                       accessToken, newTokenExpiry),
                          before \o trace)
    IN CASE call.action \in {"current", "play", "pause", "next", "previous"} ->
              done(<<api>>)
         [] call.action = "volume" ->
              IF ~call.volume THEN Returned(Value(TRUE), before)
              ELSE done(<<api>>)
         [] call.action = "search" ->
              IF ~call.query THEN Returned(Value(TRUE), before)
              ELSE IF failed \/ ~world.found THEN done(<<api>>)
              ELSE done(<<api, api>>)
         [] OTHER -> Returned(Value(TRUE), before)

\* functionRouter.ts:193-243, part_001:332-356 (refreshAccessToken)
handleSpotifyControl(call, settings, world) ==
    IF ~call.args THEN Thrown(<<>>)
    ELSE IF ~settings.spotifyConnected \/ ~settings.spotifyAccessToken
    THEN Returned(Value(TRUE), <<>>)
    ELSE IF ~NeedsRefresh(settings, world)
    THEN SpotifyAction(call, world, <<>>, FALSE, "stored", "absent")
    ELSE IF ~settings.spotifyRefreshToken THEN Returned(Value(TRUE), <<>>)
    ELSE IF Fails("refresh", world)
    THEN Returned(Value(TRUE), <<Request("refresh")>>)
    ELSE SpotifyAction(call, world, <<Request("refresh")>>, TRUE,
                       IF world.refresh = "noToken" THEN "undefined" ELSE "fresh",
                       IF world.refresh = "noExpiry" THEN "NaN" ELSE "number")

\* functionRouter.ts:37-52  the switch on call.name
Dispatch(call, settings, world) ==
    CASE call.name = "web_search"      -> handleWebSearch(call, settings, world)
      [] call.name = "get_weather"     -> handleGetWeather(call, settings, world)
      [] call.name = "send_email"      -> handleSendEmail(call, settings, world)
      [] call.name = "spotify_control" -> handleSpotifyControl(call, settings, world)
      [] OTHER                         -> Thrown(<<>>)

\* A router without its catch block
routeFunctionCallNoCatch(call, settings, world) == Dispatch(call, settings, world)

\* functionRouter.ts:29-59
routeFunctionCall(call, settings, world) ==
    LET r == Dispatch(call, settings, world)
    IN IF r.kind = "throw" THEN Returned(Value(TRUE), r.trace) ELSE r

\* part_002:94-129  the handler the page registers, given what
\* routeFunctionCall settled with
onFunctionCall(routed, world) ==
    IF routed.kind = "throw" THEN routed
    ELSE LET result == routed.result IN
         IF /\ result.tokenRefreshed = "true"
            /\ result.newAccessToken = "fresh"
            /\ result.newTokenExpiry = "number"
         THEN IF Fails("updateSettings", world) THEN Thrown(routed.trace)
              ELSE Returned([result EXCEPT !.tokenRefreshed = "absent",
                                           !.newAccessToken = "absent",
                                           !.newTokenExpiry = "absent"],
                            routed.trace)
         ELSE routed

\* HudGreeting.tsx:423-433  JSON.stringify drops a key whose value is
\* undefined and writes NaN as null
Serialized(result) ==
    [result EXCEPT
        !.newAccessToken = IF @ = "undefined" THEN "absent" ELSE @,
        !.newTokenExpiry = IF @ = "NaN" THEN "null" ELSE @]

\* HudGreeting.tsx:459-473  what handleFunctionCall sends for the call
FunctionResponse(handled) ==
    IF handled.kind = "throw" THEN Serialized(Value(TRUE))
    ELSE Serialized(handled.result)

(***************************************************************************)
(* ToolSpec: one function call with its arguments, the settings and the    *)
(* outcome of every outside request drawn from the sets below, routed and  *)
(* then answered.                                                          *)
(***************************************************************************)
Coordinates == {Undefined, <<0>>, <<5>>}

NoArgs(name) ==
    [name |-> name, args |-> FALSE, city |-> "", lat |-> Undefined,
     lon |-> Undefined, action |-> "", query |-> FALSE, volume |-> FALSE]

PlainCall(name) == [NoArgs(name) EXCEPT !.args = TRUE]

WeatherCalls ==
    {[PlainCall("get_weather") EXCEPT !.city = c, !.lat = la, !.lon = lo] :
        c \in {"", "Paris"}, la \in Coordinates, lo \in Coordinates}

SpotifyCalls ==
    {[PlainCall("spotify_control") EXCEPT !.action = a, !.query = q, !.volume = v] :
        a \in {"current", "play", "pause", "next", "previous", "volume",
               "search", "shuffle"},
        q \in BOOLEAN, v \in BOOLEAN}

NoSettings ==
    [weatherApiKey |-> FALSE, city |-> "", lat |-> Undefined, lon |-> Undefined,
     smtp |-> FALSE, spotifyConnected |-> FALSE, spotifyAccessToken |-> FALSE,
     spotifyRefreshToken |-> FALSE, spotifyTokenExpiry |-> 0]

WeatherSettings ==
    {[NoSettings EXCEPT !.weatherApiKey = k, !.city = c, !.lat = la, !.lon = lo] :
        k \in BOOLEAN, c \in {"", "Rome"}, la \in Coordinates, lo \in Coordinates}

\* Expiries around a clock of 10 minutes: not stored, past, inside the
\* window, at its edge, and outside it
SpotifySettings ==
    {[NoSettings EXCEPT !.spotifyConnected = c, !.spotifyAccessToken = a,
                        !.spotifyRefreshToken = r, !.spotifyTokenExpiry = e] :
        c \in BOOLEAN, a \in BOOLEAN, r \in BOOLEAN, e \in {0, 8, 12, 15, 16, 30}}

World(fails, refresh, found) ==
    [now |-> 10, fails |-> fails, refresh |-> refresh, found |-> found]

Quiet == World("none", "ok", TRUE)

ToolInputs ==
    {<<c, s, Quiet>> : c \in {NoArgs("web_search"), NoArgs("get_weather"),
                              NoArgs("send_email"), NoArgs("spotify_control"),
                              PlainCall("open_door")},
                       s \in {NoSettings}}
    \cup {<<PlainCall("web_search"), NoSettings, World(f, "ok", TRUE)>> :
            f \in {"none", "webSearch"}}
    \cup {<<PlainCall("send_email"), [NoSettings EXCEPT !.smtp = m],
            World(f, "ok", TRUE)>> :
            m \in BOOLEAN, f \in {"none", "sendEmail"}}
    \cup {<<c, s, World(f, "ok", TRUE)>> :
            c \in WeatherCalls, s \in WeatherSettings,
            f \in {"none", "geolocateIP", "weather"}}
    \cup {<<c, s, World(f, r, d)>> :
            c \in SpotifyCalls, s \in SpotifySettings,
            f \in {"none", "refresh", "spotify", "updateSettings"},
            r \in {"ok", "noExpiry", "noToken"}, d \in BOOLEAN}

ToolInit ==
    /\ InitPlayback
    /\ InitCapture
    /\ InitGemini
    /\ InitApp
    /\ conversion = [phase |-> "idle"]
    /\ \E input \in ToolInputs :
          routing = [phase |-> "called", call |-> input[1], settings |-> input[2],
                     world |-> input[3], routed |-> Returned(Value(FALSE), <<>>),
                     sent |-> Value(FALSE)]

\* functionRouter.ts:29-59  routeFunctionCall settles
RouteFunctionCall ==
    /\ routing.phase = "called"
    /\ routing' = [routing EXCEPT
                     !.phase = "routed",
                     !.routed = routeFunctionCall(routing.call, routing.settings,
                                                  routing.world)]
    /\ UNCHANGED <<playVars, capVars, gemVars, appVars, conversion>>

\* part_002:96-129, HudGreeting.tsx:461-473  the page's handler settles and
\* handleFunctionCall sends the response
SendFunctionResponse ==
    /\ routing.phase = "routed"
    /\ routing' = [routing EXCEPT
                     !.phase = "sent",
                     !.sent = FunctionResponse(
                                 onFunctionCall(routing.routed, routing.world))]
    /\ UNCHANGED <<playVars, capVars, gemVars, appVars, conversion>>

ToolNext == RouteFunctionCall \/ SendFunctionResponse

ToolSpec == ToolInit /\ [][ToolNext]_vars

(***************************************************************************)
(* PCM conversion: float sample to 16-bit PCM on the capture side          *)
(* (livekit.ts:173-178) and back on the playback side (livekit.ts:235-240).*)
(* A sample is a sign and a magnitude n counted in steps of                *)
(* 1/(scale * Resolution), scale being the factor the code applies to that *)
(* sign, so that sample * scale is the exact fraction n / Resolution.      *)
(***************************************************************************)
PositiveScale == 32767   \* 0x7FFF
NegativeScale == 32768   \* 0x8000
Resolution    == 40000   \* sample values between two neighbouring PCM values

\* livekit.ts:177  s < 0 ? 0x8000 : 0x7FFF
Scale(x) == IF x.neg THEN NegativeScale ELSE PositiveScale

\* The samples 1 and -1
FullScale(x) == Scale(x) * Resolution

\* An encoder that scales the sample as it comes
NoClamp(x) == x

\* livekit.ts:176  Math.max(-1, Math.min(1, inputData[i]))
Clamp(x) == IF x.n > FullScale(x) THEN [x EXCEPT !.n = FullScale(x)] ELSE x

\* livekit.ts:177  the store into the Int16Array: the fraction is dropped
\* and the integer taken modulo 2^16
ToInt16(neg, n) ==
    LET int == IF neg THEN -(n \div Resolution) ELSE n \div Resolution
    IN ((int + 32768) % 65536) - 32768

\* livekit.ts:174-178
floatToPCM16(x) == LET s == Clamp(x) IN ToInt16(s.neg, s.n)

\* livekit.ts:236-240
pcm16ToFloat(p) ==
    IF p < 0 THEN [neg |-> TRUE, n |-> (-p) * Resolution]
    ELSE [neg |-> FALSE, n |-> p * Resolution]

(***************************************************************************)
(* PcmSpec: one sample, drawn from values at, just above, halfway between  *)
(* and just below PCM values over the range of each sign, and from values  *)
(* beyond full scale, is encoded and decoded.                              *)
(***************************************************************************)
Levels == {0, 1, 2, 16383, 32766}

Fractions == {0, 1, Resolution \div 2, Resolution - 2, Resolution - 1}

Magnitudes(neg) ==
    LET one == FullScale([neg |-> neg, n |-> 0])
    IN {k * Resolution + f : k \in Levels, f \in Fractions}
       \cup {one, one + 1, one + Resolution, 50000 * Resolution}

Samples ==
    {[neg |-> neg, n |-> n] : neg \in BOOLEAN, n \in Magnitudes(TRUE)
                                               \cup Magnitudes(FALSE)}
    \ {[neg |-> TRUE, n |-> 0]}

PcmInit ==
    /\ InitPlayback
    /\ InitCapture
    /\ InitGemini
    /\ InitApp
    /\ routing = [phase |-> "idle"]
    /\ \E x \in Samples :
          conversion = [phase |-> "sampled", x |-> x, pcm16 |-> 0,
                        y |-> [neg |-> FALSE, n |-> 0]]

\* livekit.ts:174-178  the capture side encodes the sample
Encode ==
    /\ conversion.phase = "sampled"
    /\ conversion' = [conversion EXCEPT !.phase = "encoded",
                                        !.pcm16 = floatToPCM16(conversion.x)]
    /\ UNCHANGED <<playVars, capVars, gemVars, appVars, routing>>

\* livekit.ts:236-240  the playback side decodes it
Decode ==
    /\ conversion.phase = "encoded"
    /\ conversion' = [conversion EXCEPT !.phase = "decoded",
                                        !.y = pcm16ToFloat(conversion.pcm16)]
    /\ UNCHANGED <<playVars, capVars, gemVars, appVars, routing>>

PcmNext == Encode \/ Decode

PcmSpec == PcmInit /\ [][PcmNext]_vars

(***************************************************************************)
(* Properties of the playback scheduler.                                   *)
(***************************************************************************)
End(s) == s.start + s.dur

\* A step that schedules a frame
Scheduled == Len(sources') = Len(sources) + 1

\* A step with no interruptAudio() and no disconnect in it
NoInterruption ==
    /\ interrupts' = interrupts
    /\ playbackAudioContext => playbackAudioContext'

\* C5: every playAudio schedules its frame at max(current clock time,
\* nextStartTime) and sets nextStartTime to that start plus the frame's
\* duration; nextStartTime never decreases unless playback is interrupted
\* or the service disconnected.
C5_StartIsMaxThenNextAdvances ==
    [][/\ Scheduled =>
            /\ Last(sources').start = Max(currentTime, nextStartTime)
            /\ nextStartTime' = Last(sources').start + Last(sources').dur
       /\ NoInterruption => nextStartTime' >= nextStartTime]_vars

\* Three frames: the second queued behind the first, the third enqueued
\* after the clock had passed the end of the second
C5_Witness ==
    /\ Len(sources) = 3
    /\ interrupts = 0
    /\ sources[2].start = End(sources[1])
    /\ sources[3].start > End(sources[2])
    /\ nextStartTime = End(sources[3])

RECURSIVE SumDur(_)
SumDur(n) == IF n = 0 THEN 0 ELSE sources[n].dur + SumDur(n - 1)

\* A step that schedules a frame when the clock has not passed the end of
\* the frame scheduled before it, with no interruption between the two
QueuedBehind ==
    /\ Scheduled
    /\ sources # <<>>
    /\ Last(sources).epoch = interrupts
    /\ currentTime <= End(Last(sources))

\* C6: without an interruption, frames are scheduled in the order they were
\* enqueued and no two scheduled intervals overlap; a frame enqueued before
\* the clock passed the previous frame's end starts exactly at that end; and
\* frames enqueued at clock 0 start at the sums of the durations before them.
C6_OrderedGaplessNoOverlap ==
    [][/\ \A i, j \in DOMAIN sources' :
            (i < j /\ sources'[i].epoch = sources'[j].epoch)
                => End(sources'[i]) <= sources'[j].start
       /\ QueuedBehind => Last(sources').start = End(Last(sources))
       /\ (currentTime = 0 /\ interrupts = 0) =>
            \A i \in DOMAIN sources : sources[i].start = SumDur(i - 1)]_vars

\* Durations 2, 1, 1 enqueued at clock 0: starts 0, 2, 3, a span of 4
C6_Witness ==
    /\ currentTime = 0
    /\ interrupts = 0
    /\ Len(sources) = 3
    /\ sources[1].dur = 2
    /\ sources[2].start = 2
    /\ sources[3].start = 3
    /\ nextStartTime = 4

\* No frame has been enqueued since the last interruptAudio()
NothingSinceInterrupt ==
    /\ interrupts > 0
    /\ \A i \in DOMAIN sources : sources[i].epoch < interrupts

\* C7: when interruptAudio returns the set of scheduled sources is empty and
\* every source that was in it is stopped; the next frame enqueued starts at
\* the clock's current time.
C7_InterruptEmptiesAndRestartsAtClock ==
    [][/\ interrupts' > interrupts =>
            /\ scheduledSources' = <<>>
            /\ \A id \in Range(scheduledSources) : sources'[id].stopped
       /\ (NothingSinceInterrupt /\ Scheduled) =>
            Last(sources').start = currentTime']_vars

\* A frame was queued to end in the future, playback was interrupted with no
\* clock advance, and the next frame starts at the clock, before that end
C7_Witness ==
    \E i, j \in DOMAIN sources :
        /\ sources[i].epoch < sources[j].epoch
        /\ sources[i].stopped
        /\ sources[i].start > sources[j].start
        /\ sources[j].start = currentTime

\* C8: whatever the order of enqueues and interruptions, a frame enqueued
\* before an interruption is neither playing nor scheduled after it.
C8_NoOrphanAfterInterrupt ==
    \A i \in DOMAIN sources :
        sources[i].epoch < interrupts =>
            \/ sources[i].stopped
            \/ End(sources[i]) <= currentTime

\* Two frames from before an interruption, one playing and one still to
\* start, both stopped, and a frame of the new utterance scheduled
C8_Witness ==
    \E i, j, k \in DOMAIN sources :
        /\ sources[i].epoch < interrupts /\ sources[j].epoch < interrupts
        /\ sources[i].stopped /\ sources[j].stopped
        /\ sources[i].start <= currentTime /\ currentTime < End(sources[i])
        /\ currentTime < sources[j].start
        /\ sources[k].epoch = interrupts
        /\ k \in Range(scheduledSources)

(***************************************************************************)
(* Properties of the voice-activity detector and of its wiring.            *)
(***************************************************************************)
\* C9: the voice-activity callback is edge-triggered.  A capture session
\* starts inactive; the events a processor has emitted are as many as the
\* changes of its input between above and not above the threshold, and they
\* alternate, became-active first: a run of frames of one kind adds none.
C9_EdgeTriggered ==
    \A p \in DOMAIN processors :
        LET e == processors[p].events IN
        /\ Len(e) = processors[p].changes
        /\ \A k \in DOMAIN e : e[k] = (k % 2 = 1)

\* A quiet run, then a loud run of several frames: one became-active event;
\* and input that changed three times: three events
C9_Witness ==
    \E p \in DOMAIN processors :
        \/ /\ processors[p].events = <<TRUE>>
           /\ processors[p].lastClass
           /\ processors[p].repeated
        \/ processors[p].events = <<TRUE, FALSE, TRUE>>

\* A step in which processor p emits the event e
Emits(p, e) ==
    /\ p \in DOMAIN processors
    /\ p \in DOMAIN processors'
    /\ processors'[p].events = Append(processors[p].events, e)

\* C10: playback is interrupted exactly on became-active events.  A
\* became-active event calls interruptAudio and leaves no scheduled source;
\* a became-inactive event leaves playback as it is; and a frame calls
\* interruptAudio only when it is above the threshold and the event is
\* became-active.
C10_InterruptOnBecameActiveOnly ==
    [][/\ (\E p \in 1..MaxProcessors : Emits(p, TRUE)) =>
            /\ interrupts' = interrupts + 1
            /\ scheduledSources' = <<>>
       /\ (\E p \in 1..MaxProcessors : Emits(p, FALSE)) =>
            UNCHANGED playVars
       /\ interrupts' > interrupts =>
            \E p \in 1..MaxProcessors :
                Emits(p, TRUE) /\ processors'[p].lastClass]_vars

\* The user spoke over a scheduled frame, which was stopped, then fell
\* silent, which changed nothing
C10_Witness ==
    /\ \E p \in DOMAIN processors : processors[p].events = <<TRUE, FALSE>>
    /\ interrupts = 1
    /\ scheduledSources = <<>>
    /\ \E i \in DOMAIN sources :
          sources[i].stopped /\ currentTime < End(sources[i])

(***************************************************************************)
(* Properties of the function-call protocol.                               *)
(***************************************************************************)
Responses(id) ==
    {k \in DOMAIN wsSent :
        wsSent[k].type = "toolResponse" /\ wsSent[k].id = id}

\* The handler was called for the call and its promise has not settled
InFlight(c) ==
    \E t \in DOMAIN tasks :
        tasks[t].pc \in {"toolCall", "partCall"} /\ PendingCall(tasks[t]) = c

\* C1: for every call handed to the registered function handler, while the
\* session stays connected, exactly one tool response with the call's id is
\* eventually sent, whether the handler resolves or rejects: never two, and
\* one unless the transport stops being open while the call is in flight.
C1_ExactlyOneResponse ==
    /\ [](\A c \in AllCalls : Cardinality(Responses(c.id)) <= 1)
    /\ \A c \in AllCalls :
          InFlight(c) ~> (ws # "OPEN" \/ Cardinality(Responses(c.id)) = 1)

\* Two calls were handed to the handler; one resolved, one rejected; each
\* has its one response and the transport is still open
C1_Witness ==
    /\ ws = "OPEN"
    /\ Len(dispatched) >= 2
    /\ \A k \in DOMAIN dispatched : Cardinality(Responses(dispatched[k])) = 1
    /\ \E k \in DOMAIN wsSent : wsSent[k].result.by = "handler"
    /\ \E k \in DOMAIN wsSent :
          wsSent[k].result.by = "session" /\ wsSent[k].result.fn # "none"

Rejection == [kind |-> "reject", result |-> NoResult]

\* The calls of a message, old format included
CallsOf(msg) ==
    Range(msg.toolCalls)
        \cup {msg.parts[j].call :
                j \in {n \in DOMAIN msg.parts : msg.parts[n].kind = "functionCall"}}

\* The messages a step writes to the transport
NewlySent == {wsSent'[k] : k \in (DOMAIN wsSent') \ (DOMAIN wsSent)}

ErrorResponseSent(call) ==
    \E m \in NewlySent :
        m.type = "toolResponse" /\ m.id = call.id /\ m.result.error

\* A step in which handleMessage gets to the calls of a message
Parsed(msg) ==
    \/ WsOnMessage /\ msg = Head(wire) /\ ~msg.blob
    \/ \E t \in DOMAIN tasks : BlobRead(t) /\ msg = tasks[t].msg

\* C2: when the function handler rejects, and when no function handler is
\* registered, the session (its transport open) sends a response with the
\* call's id whose result has an `error` field, and the connection is left
\* as it was, open for the messages that follow.
C2_ErrorResponseAndSessionContinues ==
    [][/\ \A t \in DOMAIN tasks :
            (ws = "OPEN" /\ HandlerSettles(t, Rejection)) =>
                /\ ErrorResponseSent(PendingCall(tasks[t]))
                /\ ws' = "OPEN"
       /\ \A msg \in SessionMessages :
            (ws = "OPEN" /\ ~handlers /\ Parsed(msg)) =>
                /\ \A c \in CallsOf(msg) : ErrorResponseSent(c)
                /\ ws' = "OPEN"]_vars

\* A rejected call was answered with an error, and a message that arrived
\* after that answer was handled and answered too
C2_Witness ==
    \E k1, k2 \in DOMAIN wsSent :
        /\ k1 < k2
        /\ wsSent[k1].result.by = "session" /\ wsSent[k1].result.fn # "none"
        /\ wsSent[k1].result.error
        /\ wsSent[k2].type = "toolResponse"
        /\ Len(tasks) = 2
        /\ wsSent[k1].id \in {c.id : c \in CallsOf(tasks[1].msg)}
        /\ wsSent[k2].id \in {c.id : c \in CallsOf(tasks[2].msg)}
        /\ tasks[2].pc = "done"
        /\ wire = <<>>

\* C3 (as claimed): the handler is called for every request of a batch
\* without waiting for an earlier one: whenever a request of a batch is in
\* flight, every request of that batch has been handed to the handler.
C3_BatchDispatchedWithoutWaiting ==
    \A t \in DOMAIN tasks :
        tasks[t].pc = "toolCall" =>
            \A k \in DOMAIN tasks[t].msg.toolCalls :
                tasks[t].msg.toolCalls[k].id \in Range(dispatched)

\* C4: in whatever order the outstanding handlers complete, every response
\* carries the id of the request whose handler produced its result.
C4_ResponseCarriesItsRequestId ==
    \A k \in DOMAIN wsSent :
        (wsSent[k].type = "toolResponse" /\ wsSent[k].result.fn # "none") =>
            \E c \in AllCalls :
                c.id = wsSent[k].id /\ c.name = wsSent[k].result.fn

\* Position of x in a sequence (0 when absent)
IndexOf(seq, x) ==
    IF \E k \in DOMAIN seq : seq[k] = x
    THEN CHOOSE k \in DOMAIN seq : seq[k] = x
    ELSE 0

\* Two handlers for calls of different messages were outstanding together
\* and the one called last completed first
C4_Witness ==
    \E k1, k2 \in DOMAIN wsSent :
        /\ k1 < k2
        /\ wsSent[k1].result.by = "handler" /\ wsSent[k2].result.by = "handler"
        /\ IndexOf(dispatched, wsSent[k1].id) > IndexOf(dispatched, wsSent[k2].id)
        /\ IndexOf(dispatched, wsSent[k2].id) > 0
        /\ \E t1, t2 \in DOMAIN tasks :
              /\ t1 # t2
              /\ wsSent[k1].id \in {c.id : c \in CallsOf(tasks[t1].msg)}
              /\ wsSent[k2].id \in {c.id : c \in CallsOf(tasks[t2].msg)}

(***************************************************************************)
(* Properties of the capture pipeline's start and stop.                    *)
(***************************************************************************)
\* C11: once stopAudioCapture has returned, no audioprocess event invokes
\* the audio-data callback or the voice-activity callback, not even an
\* event that was in flight when the capture was stopped.
C11_NoCallbackAfterStop ==
    \A p \in DOMAIN processors : ~processors[p].late

\* The capture pipeline is not started: nothing of it is registered
NotStarted ==
    /\ ~onAudioDataCallback
    /\ ~onVoiceActivityCallback
    /\ ~audioContext
    /\ processor = 0

\* C12: a startAudioCapture call that fails (microphone not enabled, or a
\* track without a media stream) leaves the pipeline as not started as it
\* was before the call: no callback, no audio context and no processor.
C12_FailedStartLeavesNotStarted ==
    [][(StartAudioCapture /\ localAudioTrack # "track" /\ NotStarted)
          => NotStarted']_vars

(***************************************************************************)
(* Properties of inbound message handling.                                 *)
(***************************************************************************)
\* C15: no inbound message is handled as two classes: a message whose
\* function call was dispatched has no content part delivered, and the
\* other way round.
C15_OneClassPerMessage ==
    \A t \in DOMAIN tasks :
        ~ /\ \E c \in CallsOf(tasks[t].msg) : c.id \in Range(dispatched)
          /\ \E k \in DOMAIN delivered : delivered[k].t = t

\* C16: audio and text parts reach their handlers in the order they arrived
\* on the transport: by message, and by part within a message.
C16_DeliveredInArrivalOrder ==
    \A a, b \in DOMAIN delivered :
        a < b =>
            \/ delivered[a].t < delivered[b].t
            \/ delivered[a].t = delivered[b].t /\ delivered[a].j < delivered[b].j

\* A step in which the handling of the t-th message comes to its end
Handled(t) ==
    /\ t \in DOMAIN tasks'
    /\ tasks'[t].pc = "done"
    /\ t \in DOMAIN tasks => tasks[t].pc # "done"

\* A message that parses and holds audio and text parts only
WellFormedContent(msg) ==
    /\ ~msg.malformed
    /\ ~msg.setupComplete
    /\ msg.toolCalls = <<>>
    /\ \A j \in DOMAIN msg.parts : msg.parts[j].kind \in {"audio", "text"}

\* A malformed message was handled before this step
MalformedSeen ==
    \E u \in DOMAIN tasks : tasks[u].msg.malformed /\ tasks[u].pc = "done"

\* C17: handling a message that does not parse delivers no audio and no
\* text, dispatches no call, writes nothing to the transport, and leaves
\* the socket and the handlers as they were; a well-formed content message
\* handled after it has every one of its parts delivered.
C17_MalformedDropped ==
    [][\A t \in DOMAIN tasks' :
          /\ (Handled(t) /\ tasks'[t].msg.malformed) =>
                /\ delivered' = delivered
                /\ dispatched' = dispatched
                /\ wsSent' = wsSent
                /\ UNCHANGED playVars
                /\ ws' = ws
                /\ handlers' = handlers
          /\ (Handled(t) /\ MalformedSeen /\ handlers
                 /\ WellFormedContent(tasks'[t].msg)) =>
                \A j \in DOMAIN tasks'[t].msg.parts :
                    LET d == Delivery(tasks'[t].msg.parts[j].kind, t, j)
                    IN d \in Range(delivered') /\ d \notin Range(delivered)]_vars

\* A malformed message was handled, and the content message that arrived
\* after it was delivered to the handlers on the socket still open
C17_Witness ==
    /\ ws = "OPEN"
    /\ handlers
    /\ \E u, t \in DOMAIN tasks :
          /\ u < t
          /\ tasks[u].msg.malformed /\ tasks[u].pc = "done"
          /\ WellFormedContent(tasks[t].msg) /\ tasks[t].pc = "done"
          /\ \E k \in DOMAIN delivered : delivered[k].t = t

\* C18: handling an inbound message, malformed ones and failing function
\* dispatches included, never invokes the session's error callback.
C18_InboundFailuresNotSurfaced ==
    [][tasks' # tasks => errorEvents' = errorEvents]_vars

(***************************************************************************)
(* Properties of the handshake and of the page's start and stop.           *)
(***************************************************************************)
\* C13: the session is used only once the remote party has acknowledged
\* the handshake: between the setup message and setupComplete, no audio,
\* text or tool response is written to the transport.
C13_NothingSentBeforeAck ==
    [][\A msg \in NewlySent : msg.type # "setup" => setupAcked]_vars

\* The session is Ready: its socket is open and the handshake acknowledged
Ready == ws = "OPEN" /\ setupAcked

\* C14: a frame offered to sendAudio while the session is not Ready is not
\* transmitted, then or later: a step from a state that is not Ready writes
\* no audio message to the transport.
C14_AudioDroppedUnlessReady ==
    [][~Ready => \A msg \in NewlySent : msg.type # "realtimeInput"]_vars

\* The place of a call in the last teardown (0 when it was not made)
TeardownAt(op) ==
    IF \E k \in DOMAIN teardown : teardown[k].op = op
    THEN CHOOSE k \in DOMAIN teardown : teardown[k].op = op
    ELSE 0

\* C19: handleDisconnect stops the capture, then interrupts the playback,
\* then disconnects the model session: the playback is interrupted with the
\* capture stopped and the session as the teardown found it, not yet
\* disconnected; the session is disconnected with nothing left scheduled;
\* and with no capture running no audio frame is written to the transport.
C19_TeardownOrder ==
    /\ [](teardown # <<>> =>
            LET stop      == TeardownAt("stopAudioCapture")
                interrupt == TeardownAt("interruptAudio")
                close     == TeardownAt("geminiDisconnect")
            IN /\ 0 < stop /\ stop < interrupt /\ interrupt < close
               /\ teardown[interrupt].captureStopped
               /\ teardown[interrupt].ws = teardown[stop].ws
               /\ teardown[interrupt].ws # "null"
               /\ teardown[close].captureStopped
               /\ teardown[close].scheduled = 0)
    /\ [][processor = 0 =>
            \A msg \in NewlySent : msg.type # "realtimeInput"]_vars

\* A conversation whose capture was running and whose socket was open was
\* stopped, and the socket is gone
C19_Witness ==
    /\ teardown # <<>>
    /\ ~teardown[1].captureStopped
    /\ teardown[1].ws = "OPEN"
    /\ ws = "null"
    /\ ~isConnected
    /\ \E k \in DOMAIN wsSent : wsSent[k].type = "realtimeInput"

\* C20: a handleConnect that failed leaves nothing of the session behind:
\* the model session and the room are disconnected, no capture processor
\* and no capture callback is registered, and the page shows not connected.
C20_FailedStartRetainsNothing ==
    connectPc = "failed" =>
        /\ ws # "OPEN"
        /\ ~room
        /\ processor = 0
        /\ ~onAudioDataCallback
        /\ ~onVoiceActivityCallback
        /\ ~isConnected
        /\ ~isMicEnabled

(***************************************************************************)
(* Properties of stopping while a start is outstanding.                    *)
(***************************************************************************)
\* handleConnect is suspended on one of its awaits
Connecting == connectPc \in {"gemini", "token", "room", "mic"}

\* No session is connected or connecting, no room is held, no microphone
\* track is held and no capture is running
Stopped ==
    /\ ws \notin {"CONNECTING", "OPEN"}
    /\ ~room
    /\ localAudioTrack = "null"
    /\ processor = 0
    /\ \A p \in DOMAIN processors : ~processors[p].connected

\* C21: when the page was unmounted while handleConnect was outstanding,
\* the connect has no effect once it completes: at its end no session is
\* connected, no microphone is enabled and no capture is running.
C21_StopDuringConnectEffective ==
    [][(~mounted /\ Connecting /\ ~Connecting') => Stopped']_vars

(***************************************************************************)
(* Properties of the microphone button.                                    *)
(***************************************************************************)
\* A step in which processor p is handed the first frame above the
\* threshold of its capture session
FirstActiveFrame(p) ==
    /\ p \in DOMAIN processors
    /\ processors[p].changes = 0
    /\ ~processors[p].lastClass
    /\ processors'[p].lastClass

\* A capture session before that of p has ended with the detector active
EndedActiveBefore(p) ==
    \E q \in 1..(p - 1) : ~processors[q].connected /\ processors[q].wasActive

\* C24: the voice-activity state starts inactive in every capture session:
\* after a session that ended while the detector was active, the first
\* above-threshold frame of the next session (after mute then unmute)
\* produces a became-active event.
C24_ActivityResetPerSession ==
    [][\A p \in 1..MaxCaptures :
          (FirstActiveFrame(p) /\ EndedActiveBefore(p)) => Emits(p, TRUE)]_vars

\* Muted while speaking, then unmuted: the second session reported that
\* the user became active
C24_Witness ==
    /\ Len(processors) = 2
    /\ ~processors[1].connected
    /\ processors[1].wasActive
    /\ processors[2].connected
    /\ processors[2].events = <<TRUE>>
    /\ isMicEnabled

\* The processors connected to the microphone stream
ConnectedProcessors == {p \in DOMAIN processors : processors[p].connected}

\* C29: after any interleaving of connect, microphone toggle and disconnect
\* at most one capture processor is connected to the microphone stream (so
\* that a captured frame is forwarded once), and once the capture was
\* stopped by a mute or a disconnect no processor is connected.
C29_AtMostOneCapture ==
    /\ Cardinality(ConnectedProcessors) <= 1
    /\ processor = 0 => ConnectedProcessors = {}

(***************************************************************************)
(* Properties of the handshake.                                            *)
(***************************************************************************)
\* A step that writes a setup message
SetupSent == \E m \in NewlySent : m.type = "setup"

\* C25: on every connection exactly one setup message is sent and it is the
\* first message written: the step that opens the socket writes the setup
\* message and nothing else, no other step writes a setup message, and
\* nothing is written while the socket is not open.
C25_OneSetupFirst ==
    [][/\ (ws # "OPEN" /\ ws' = "OPEN") =>
              wsSent' = Append(wsSent, Outbound("setup"))
       /\ SetupSent => (ws = "CONNECTING" /\ ws' = "OPEN")
       /\ ws # "OPEN" => (wsSent' = wsSent \/ ws' = "OPEN")]_vars

\* A connection on which the setup message was followed by the greeting
\* and by captured audio
C25_Witness ==
    /\ ws = "OPEN"
    /\ Len(wsSent) >= 3
    /\ wsSent[1].type = "setup"
    /\ \E k \in DOMAIN wsSent : wsSent[k].type = "clientContent"
    /\ \E k \in DOMAIN wsSent : wsSent[k].type = "realtimeInput"
    /\ \A k \in 2..Len(wsSent) : wsSent[k].type # "setup"

(***************************************************************************)
(* Properties of the state after a stop.                                   *)
(***************************************************************************)
\* handleDisconnect has returned and no conversation was started since
AfterStop ==
    /\ teardown # <<>>
    /\ ~isConnected
    /\ ~Connecting
    /\ ws = "null"
    /\ ~room

\* C30: after handleDisconnect has returned no step creates a playback
\* context or schedules an audio frame, not even the step that resumes an
\* inbound message suspended when the stop was made.
C30_NoPlaybackAfterStop ==
    [][AfterStop => (/\ ~playbackAudioContext'
                     /\ scheduledSources' = <<>>
                     /\ sources' = sources)]_vars

(***************************************************************************)
(* Properties of the function router.                                      *)
(***************************************************************************)
KnownFunctions == {"web_search", "get_weather", "send_email", "spotify_control"}

\* routeFunctionCall has settled for the call
Routed == routing.phase \in {"routed", "sent"}

\* A request the call made to the outside failed
ToolFailed ==
    \E k \in DOMAIN routing.routed.trace :
        routing.routed.trace[k].op = routing.world.fails

\* C22: routeFunctionCall never rejects: for every function name and every
\* failure of the underlying tool it resolves to a result value, and when
\* the tool failed or the name is unknown that value has an error key.
C22_RouterNeverRejects ==
    Routed =>
        /\ routing.routed.kind = "return"
        /\ (ToolFailed \/ routing.call.name \notin KnownFunctions)
              => routing.routed.result.error

\* A call of a function the router does not know, resolved to an error
C22_Witness ==
    /\ routing.phase = "routed"
    /\ routing.call.name \notin KnownFunctions
    /\ routing.routed.kind = "return"
    /\ routing.routed.result.error

\* The Spotify API requests of the call, as places in its trace
ApiRequests ==
    {k \in DOMAIN routing.routed.trace : routing.routed.trace[k].op = "spotify"}

\* A spotify_control call made with the stored expiry known and the clock
\* within the refresh window of it or past it
RefreshDue ==
    /\ routing.call.name = "spotify_control"
    /\ routing.call.args
    /\ routing.settings.spotifyTokenExpiry # 0
    /\ routing.world.now + RefreshWindow >= routing.settings.spotifyTokenExpiry

\* C26: for a spotify_control call made within five minutes of the stored
\* token expiry or past it, a refresh is attempted before any Spotify API
\* request and every API request carries the token the refresh returned;
\* with no refresh token stored, or when the refresh fails, the call
\* returns an error result and makes no API request.
C26_RefreshBeforeRequests ==
    (Routed /\ RefreshDue) =>
        /\ \A k \in ApiRequests :
              /\ \E j \in 1..(k - 1) : routing.routed.trace[j].op = "refresh"
              /\ routing.routed.trace[k].token # "stored"
        /\ (~routing.settings.spotifyRefreshToken \/ Fails("refresh", routing.world))
              => (routing.routed.result.error /\ ApiRequests = {})

\* A search made exactly five minutes before the expiry: the token is
\* refreshed and both API requests carry the new token
C26_Witness ==
    /\ routing.phase = "routed"
    /\ routing.call.action = "search"
    /\ routing.settings.spotifyTokenExpiry = routing.world.now + RefreshWindow
    /\ routing.routed.trace =
          <<Request("refresh"), SpotifyRequest("fresh"), SpotifyRequest("fresh")>>
    /\ ~routing.routed.result.error

\* The call provides a location, or the settings do
LocationProvided ==
    \/ Defined(routing.call.lat) /\ Defined(routing.call.lon)
    \/ routing.call.city # ""
    \/ routing.settings.city # ""
    \/ Defined(routing.settings.lat) /\ Defined(routing.settings.lon)

\* C27: a get_weather call whose arguments give both a latitude and a
\* longitude (0 included) makes a coordinate query with exactly those
\* coordinates, whatever city the call or the settings name; the IP
\* geolocation is used only when neither call nor settings give a location.
C27_CoordinatesTakePrecedence ==
    (Routed /\ routing.call.name = "get_weather" /\ routing.call.args
            /\ routing.settings.weatherApiKey) =>
        /\ (Defined(routing.call.lat) /\ Defined(routing.call.lon)) =>
              routing.routed.trace =
                  <<[Request("weather") EXCEPT !.lat = routing.call.lat,
                                               !.lon = routing.call.lon]>>
        /\ (\E k \in DOMAIN routing.routed.trace :
                routing.routed.trace[k].op = "geolocateIP") => ~LocationProvided

\* C28: no function response sent to the model carries the internal fields
\* _tokenRefreshed, _newAccessToken or _newTokenExpiry, whatever the token
\* refresh returned.
C28_InternalFieldsRemoved ==
    routing.phase = "sent" =>
        /\ routing.sent.tokenRefreshed = "absent"
        /\ routing.sent.newAccessToken = "absent"
        /\ routing.sent.newTokenExpiry = "absent"

(***************************************************************************)
(* Properties of the PCM conversion.                                       *)
(***************************************************************************)
\* The sample is within [-1, 1]
InRange == conversion.x.n <= FullScale(conversion.x)

\* The sample has been encoded and decoded
Decoded == conversion.phase = "decoded"

\* What the round trip lost, in the steps the sample is counted in (the
\* decoded value has the sign of the sample or is 0)
Lost == conversion.x.n - conversion.y.n

\* Inputs beyond full scale are encoded as full scale
Clipped ==
    (conversion.phase # "sampled" /\ ~InRange) =>
        conversion.pcm16 = IF conversion.x.neg THEN -NegativeScale
                           ELSE PositiveScale

\* C23 as stated: the round trip of a sample within [-1, 1] differs from
\* the sample by at most 1/32768, and inputs outside [-1, 1] are clipped to
\* full scale.
C23_RoundTripWithinStep ==
    /\ (Decoded /\ InRange) =>
          /\ Lost >= 0
          /\ Lost * NegativeScale <= Scale(conversion.x) * Resolution
    /\ Clipped

\* C23 amended: the round trip of a sample within [-1, 1] differs from the
\* sample by less than one step of the scale of its sign, 1/32768 for a
\* negative sample and 1/32767 for a non-negative one, and inputs outside
\* [-1, 1] are clipped to full scale.
C23_RoundTripWithinScaleStep ==
    /\ (Decoded /\ InRange) =>
          /\ Lost >= 0
          /\ Lost < Resolution
          /\ conversion.y.n > 0 => conversion.y.neg = conversion.x.neg
    /\ Clipped

\* A positive sample just below a PCM value, decoded to the value below it
C23_Witness ==
    /\ Decoded
    /\ ~conversion.x.neg
    /\ conversion.x.n = 2 * Resolution + (Resolution - 1)
    /\ conversion.pcm16 = 2
    /\ Lost = Resolution - 1

====
